---- MODULE Spec2Model ----
(***************************************************************************)
(* Navigation session engine of the fleet backend (backend/server.js) and  *)
(* the movement planner it calls (RouteLogic).  One Node.js process: every *)
(* handler runs to its next `await` without interruption, so each action   *)
(* below is one such run-to-await segment of a handler or timer callback.  *)
(* A store call (mongoose) takes effect at the step that resumes the       *)
(* awaiting handler; it may also reject.                                   *)
(***************************************************************************)
EXTENDS Integers, Sequences, FiniteSets, Bags, TLC

\* ------------------------------------------------------------------ bounds
\* HTTP requests and socket events accepted in one behaviour.
MaxRequests == 3
\* Firings of setInterval callbacks in one behaviour.
MaxTicks == 2
\* The same, for the behaviours of one vehicle on one route.
MaxLatencyRequests == 2
MaxLatencyTicks == 4
\* The same, for the behaviours with two vehicles.
MaxFleetRequests == 2
MaxFleetTicks == 2
\* Requests in the behaviours with fair timers, and the timer periods a Fleet
\* call may take there.
MaxLiveRequests == 3
\* Requests and timer firings in the behaviours with failing emits.
MaxPublishRequests == 3
MaxPublishTicks == 2
\* Requests and timer firings in the behaviours with status queries.
MaxQueryRequests == 3
MaxQueryTicks == 2
\* Coordinates of a planned route, and its duration in tenths of a second.
MaxCoords == 3
MaxDurationTenths == 35
MaxInFlight == 1

\* ------------------------------------------------------------- value space
Users == {"A", "B"}

\* JavaScript null (navigation.interval, a missing Map entry, a missing doc).
Null == 0

\* JavaScript undefined, as a position (movementPoints[0] of an empty array).
Undefined == <<>>

\* Route documents of the store. R3 has a single coordinate and a duration
\* below one second; R4 has an empty geometry and a zero duration; R9 is an
\* id no document has.
RouteDocs ==
  [R1 |-> [userId |-> "A", coordinates |-> << <<0, 0>>, <<0, 1>> >>, durationTenths |-> 15],
   R2 |-> [userId |-> "B", coordinates |-> << <<0, 0>>, <<1, 0>> >>, durationTenths |-> 15],
   R3 |-> [userId |-> "A", coordinates |-> << <<5, 5>> >>, durationTenths |-> 4],
   R4 |-> [userId |-> "A", coordinates |-> << >>, durationTenths |-> 0]]

RouteIds == {"R1", "R2", "R3", "R4", "R9"}

\* Fleet documents of the store: vehicle B has one, vehicle A has none.
FleetDocs ==
  [u \in Users |-> [exists |-> (u = "B"), coordinates |-> <<9, 9, 1>>]]

\* Route geometries given to the planner: up to MaxCoords of these vertices.
PlanVertices == {<<0, 0>>, <<0, 1>>, <<2, 1>>, <<-1, 3>>}

\* The route of the 120 second scenario: two vertices, duration 120 s.
ScenarioRoute ==
  [userId |-> "A", coordinates |-> << <<0, 0>>, <<0, 1>> >>, durationTenths |-> 1200]

PlanRoutes ==
  {ScenarioRoute} \cup
  UNION {[userId : {"A"}, coordinates : [1..l -> PlanVertices],
          durationTenths : 0..MaxDurationTenths] : l \in 0..MaxCoords}

\* ------------------------------------------------------- movement planner
Max(a, b) == IF a >= b THEN a ELSE b
Min(a, b) == IF a <= b THEN a ELSE b
Abs(a) == IF a < 0 THEN -a ELSE a

RECURSIVE Gcd(_, _)
Gcd(a, b) == IF b = 0 THEN a ELSE Gcd(b, a % b)

\* A position <<lng, lat, den>> stands for [lng/den, lat/den], in lowest terms.
Point(lng, lat, den) ==
  LET g == Gcd(Gcd(Abs(lng), Abs(lat)), den)
  IN  <<lng \div g, lat \div g, den \div g>>

\* Math.ceil of a duration given in tenths of a second.
Ceil(tenths) == (tenths + 9) \div 10

\* Variant: the interpolated pair is returned as [lat, lng].
interpolateCoordinatesSwapped(start, end, num, den) ==
  Point(start[2] * den + (end[2] - start[2]) * num,
        start[1] * den + (end[1] - start[1]) * num,
        den)

\* interpolateCoordinates(start, end, progress) with progress = num/den.
interpolateCoordinates(start, end, num, den) ==
  Point(start[1] * den + (end[1] - start[1]) * num,
        start[2] * den + (end[2] - start[2]) * num,
        den)

\* Variant: the duration is rounded down.
TotalPointsFloor(route) == Max(route.durationTenths \div 10, Len(route.coordinates))

\* totalPoints of processRouteForMovement.
TotalPoints(route) == Max(Ceil(route.durationTenths), Len(route.coordinates))

\* processRouteForMovement throws a TypeError when it indexes outside the
\* coordinates: progress is NaN (totalPoints = 1) or the array is empty.
PlanThrows(route) ==
  LET L == Len(route.coordinates)
      T == TotalPoints(route)
  IN  \/ T = 1
      \/ L = 0 /\ T > 0

\* Movement point i (0-based) of processRouteForMovement.
MovementPoint(route, i) ==
  LET c == route.coordinates
      L == Len(c)
      T == TotalPoints(route)
      coordIndex == (i * (L - 1)) \div (T - 1)
      nextCoordIndex == Min(coordIndex + 1, L - 1)
  IN  IF coordIndex = nextCoordIndex
      THEN Point(c[coordIndex + 1][1], c[coordIndex + 1][2], 1)
      ELSE interpolateCoordinates(c[coordIndex + 1], c[nextCoordIndex + 1],
                                  i * (L - 1) - coordIndex * (T - 1), T - 1)

processRouteForMovement(route) ==
  [i \in 1..TotalPoints(route) |-> MovementPoint(route, i - 1)]

\* ------------------------------------------------------------------- state
VARIABLES
  activeNavigations,  \* userId -> index into navs, or Null
  navs,               \* the navigation objects ever created (closures keep them)
  timers,             \* the setInterval timers ever created
  routes,             \* Route collection: status and isActive of each document
  fleet,              \* Fleet collection: exists / location.coordinates per _id
  joined,             \* userIds some connected socket has joined as
  pending,            \* bag of handlers suspended at an await
  published,          \* per navigation object: its io.to(room).emit calls, in order
  request,            \* the request or socket event the last step accepted, if any
  response,           \* the HTTP response the last step sent, if any
  budget,             \* requests and timer firings left in this behaviour
  call,               \* the planner or locator function being evaluated, with its arguments
  result              \* what that function has returned or thrown

vars == <<activeNavigations, navs, timers, routes, fleet, joined, pending,
          published, request, response, budget, call, result>>

\* ----------------------------------------------------------------- helpers
Request(op, u, r) == [op |-> op, userId |-> u, routeId |-> r]

\* A step that accepts no request: a timer firing or a store call settling.
NoRequest == Request("", "", "")

\* No planner or locator function is being evaluated on its own.
NoCall == [fn |-> ""]
NoResult == [status |-> ""]

\* A request or socket event is accepted while the behaviour's budget lasts.
AcceptRequest(op, u, r) ==
  /\ budget.requests > 0
  /\ budget' = [budget EXCEPT !.requests = @ - 1]
  /\ request' = Request(op, u, r)
  /\ UNCHANGED <<call, result>>

Internal == request' = NoRequest /\ UNCHANGED <<budget, call, result>>

Has(u) == activeNavigations[u] # Null

\* clearInterval(id): clearing null or a cleared timer does nothing.
clearInterval(ts, id) ==
  IF id \in DOMAIN ts THEN [ts EXCEPT ![id].live = FALSE] ELSE ts

\* A handler suspended at an await: the handler, the store call it awaits and
\* the locals its continuation reads.
Suspended(op, pc, u, r, n, pos) ==
  [op |-> op, pc |-> pc, userId |-> u, routeId |-> r, nav |-> n, position |-> pos]

Suspend(p) == pending (+) SetToBag({p})
Resume(p) == pending (-) SetToBag({p})

Response(op, u, r, n, code) ==
  [op |-> op, userId |-> u, routeId |-> r, nav |-> n, code |-> code]

\* A step that sends no response.
NoResponse == Response("", "", "", Null, Null)

Respond(op, u, r, n, code) == response' = Response(op, u, r, n, code)

Silent == response' = NoResponse

\* io.to(room).emit of the events es by a callback or handler of navigation n.
Emit(n, es) == published' = [published EXCEPT ![n] = @ \o es]

\* Route.findById(routeId) finds a document.
FindById(r) == r \in DOMAIN RouteDocs

\* Variant: the owner of the loaded route is not compared with the user.
RouteOfAnyUser(u, r) == FindById(r)

\* The guard of /startNavigation on the loaded route: route && route.userId === userId.
RouteOfUser(u, r) == FindById(r) /\ RouteDocs[r].userId = u

\* Route.findByIdAndUpdate(routeId, {status, isActive}); no document, no effect.
RouteUpdate(rs, r, status, isActive) ==
  IF r \in DOMAIN rs
  THEN [rs EXCEPT ![r] = [status |-> status, isActive |-> isActive]]
  ELSE rs

\* Outcomes of a store call: it resolves, or it rejects.
StoreOutcomes == {"resolves", "rejects"}

\* The two emits of a tick: location-update to the vehicle's room and
\* live-location-update to the fleet-manager room. progress is the fraction
\* <<currentIndex * 100, totalPoints>>.
LocationEvents(n, pos) ==
  LET nv == navs[n]
      progress == <<nv.currentIndex * 100, Len(nv.movementPoints)>>
  IN  << [room |-> nv.userId, event |-> "location-update", nav |-> n,
          routeId |-> nv.routeId, position |-> pos, progress |-> progress,
          currentIndex |-> nv.currentIndex,
          totalPoints |-> Len(nv.movementPoints),
          estimatedTimeRemaining |-> Len(nv.movementPoints) - nv.currentIndex],
         [room |-> "fleet-manager", event |-> "live-location-update", nav |-> n,
          userId |-> nv.userId, routeId |-> nv.routeId, position |-> pos,
          progress |-> progress] >>

\* The two emits that end a session: navigation-completed / route-completed,
\* navigation-stopped / route-stopped.
EndEvents(n, userEvent, fleetEvent) ==
  << [room |-> navs[n].userId, event |-> userEvent, nav |-> n,
      routeId |-> navs[n].routeId],
     [room |-> "fleet-manager", event |-> fleetEvent, nav |-> n,
      userId |-> navs[n].userId, routeId |-> navs[n].routeId] >>

\* ------------------------------------------------ POST /startNavigation
\* Variant: the table is not consulted before the route is loaded.
StartNavigationUnchecked(u, r) ==
  /\ AcceptRequest("startNavigation", u, r)
  /\ pending' = Suspend(Suspended("startNavigation", "findById", u, r, Null, Undefined))
  /\ Silent
  /\ UNCHANGED <<activeNavigations, navs, timers, routes, fleet, joined, published>>

\* The request arrives; a session in the table is a conflict (400), else
\* the handler awaits Route.findById.
StartNavigation(u, r) ==
  /\ AcceptRequest("startNavigation", u, r)
  /\ IF Has(u)
     THEN /\ Respond("startNavigation", u, r, Null, 400)
          /\ UNCHANGED pending
     ELSE /\ pending' = Suspend(Suspended("startNavigation", "findById", u, r, Null, Undefined))
          /\ Silent
  /\ UNCHANGED <<activeNavigations, navs, timers, routes, fleet, joined, published>>

\* Route.findById has settled: 404 unless the route exists and is the
\* user's; else the handler awaits Route.findByIdAndUpdate.
StartNavigationFindById(p, outcome) ==
  /\ BagIn(p, pending)
  /\ p.op = "startNavigation" /\ p.pc = "findById"
  /\ IF outcome = "rejects"
     THEN /\ Respond("startNavigation", p.userId, p.routeId, Null, 500)
          /\ pending' = Resume(p)
     ELSE IF ~RouteOfUser(p.userId, p.routeId)
     THEN /\ Respond("startNavigation", p.userId, p.routeId, Null, 404)
          /\ pending' = Resume(p)
     ELSE /\ pending' = Resume(p) (+) SetToBag({[p EXCEPT !.pc = "findByIdAndUpdate"]})
          /\ Silent
  /\ Internal
  /\ UNCHANGED <<activeNavigations, navs, timers, routes, fleet, joined, published>>

\* The navigation object of a started session.
NewNavigation(u, r, movementPoints, interval) ==
  [userId |-> u, routeId |-> r, movementPoints |-> movementPoints,
   currentIndex |-> 0,
   currentPosition |-> IF Len(movementPoints) > 0 THEN movementPoints[1] ELSE Undefined,
   status |-> "active", interval |-> interval]

\* The route is marked alive; then the movement points are planned, the
\* timer is created and the session is put in the table.
StartNavigationUpdate(p, outcome) ==
  /\ BagIn(p, pending)
  /\ p.op = "startNavigation" /\ p.pc = "findByIdAndUpdate"
  /\ pending' = Resume(p)
  /\ IF outcome = "rejects"
     THEN /\ Respond("startNavigation", p.userId, p.routeId, Null, 500)
          /\ UNCHANGED <<activeNavigations, navs, timers, routes, published>>
     ELSE /\ routes' = RouteUpdate(routes, p.routeId, "alive", TRUE)
          /\ IF PlanThrows(RouteDocs[p.routeId])
             THEN /\ Respond("startNavigation", p.userId, p.routeId, Null, 500)
                  /\ UNCHANGED <<activeNavigations, navs, timers, published>>
             ELSE LET n == Len(navs) + 1
                      t == Len(timers) + 1
                  IN  /\ navs' = Append(navs, NewNavigation(p.userId, p.routeId,
                                   processRouteForMovement(RouteDocs[p.routeId]), t))
                      /\ timers' = Append(timers, [nav |-> n, closure |-> "startNavigation", live |-> TRUE])
                      /\ activeNavigations' = [activeNavigations EXCEPT ![p.userId] = n]
                      /\ Respond("startNavigation", p.userId, p.routeId, n, 200)
                      /\ published' = Append(published, <<>>)
  /\ Internal
  /\ UNCHANGED <<fleet, joined>>

\* ------------------------------------------------------- timer callbacks
\* Variant: the completion edge empties the whole table.
TickCompletesClearsAll(n) ==
  /\ timers' = clearInterval(timers, navs[n].interval)
  /\ activeNavigations' = [u \in Users |-> Null]
  /\ pending' = Suspend(Suspended("tick", "complete", navs[n].userId, navs[n].routeId, n, Undefined))
  /\ UNCHANGED <<navs, published, fleet>>

\* Variant: the completion edge leaves the timer running.
TickCompletesKeepsTimer(n) ==
  /\ activeNavigations' = [activeNavigations EXCEPT ![navs[n].userId] = Null]
  /\ pending' = Suspend(Suspended("tick", "complete", navs[n].userId, navs[n].routeId, n, Undefined))
  /\ UNCHANGED <<navs, published, fleet, timers>>

\* Both closures, on the completion edge (currentIndex >= length): the timer
\* in navigation.interval is cleared, the table entry of the user is deleted
\* and the callback awaits the route update.
TickCompletes(n) ==
  /\ timers' = clearInterval(timers, navs[n].interval)
  /\ activeNavigations' = [activeNavigations EXCEPT ![navs[n].userId] = Null]
  /\ pending' = Suspend(Suspended("tick", "complete", navs[n].userId, navs[n].routeId, n, Undefined))
  /\ UNCHANGED <<navs, published, fleet>>

\* The closure created by /startNavigation: takes the point at currentIndex
\* and awaits Fleet.findOneAndUpdate.
TickStartClosure(n) ==
  LET currentPosition == navs[n].movementPoints[navs[n].currentIndex + 1]
  IN  /\ navs' = [navs EXCEPT ![n].currentPosition = currentPosition]
      /\ pending' = Suspend(Suspended("tick", "findOneAndUpdate", navs[n].userId,
                                      navs[n].routeId, n, currentPosition))
      /\ UNCHANGED <<timers, activeNavigations, published, fleet>>

\* The end of the try block: the two emits, then navigation.currentIndex++.
TickTry(n, currentPosition) ==
  /\ Emit(n, LocationEvents(n, currentPosition))
  /\ navs' = [navs EXCEPT ![n].currentIndex = @ + 1]

\* Variant: a catch block that emits and leaves currentIndex alone.
TickCatchNoAdvance(n, currentPosition) ==
  /\ Emit(n, LocationEvents(n, currentPosition))
  /\ UNCHANGED navs

\* The catch block: the same two emits, then navigation.currentIndex++.
TickCatch(n, currentPosition) ==
  /\ Emit(n, LocationEvents(n, currentPosition))
  /\ navs' = [navs EXCEPT ![n].currentIndex = @ + 1]

\* Variant: a tick of the /resumeNavigation closure that emits and leaves
\* currentIndex alone.
TickResumeClosureRepeats(n) ==
  LET currentPosition == navs[n].movementPoints[navs[n].currentIndex + 1]
  IN  /\ Emit(n, LocationEvents(n, currentPosition))
      /\ navs' = [navs EXCEPT ![n].currentPosition = currentPosition]
      /\ UNCHANGED <<timers, activeNavigations, pending, fleet>>

\* The closure created by /resumeNavigation: no store call, so the whole tick
\* is one step.
TickResumeClosure(n) ==
  LET currentPosition == navs[n].movementPoints[navs[n].currentIndex + 1]
  IN  /\ Emit(n, LocationEvents(n, currentPosition))
      /\ navs' = [navs EXCEPT ![n].currentPosition = currentPosition,
                              ![n].currentIndex = @ + 1]
      /\ UNCHANGED <<timers, activeNavigations, pending, fleet>>

\* The callback of timer t: the completion edge, or the tick of the closure
\* that created the timer.
TimerCallback(t) ==
  LET n == timers[t].nav
  IN  IF navs[n].currentIndex >= Len(navs[n].movementPoints)
      THEN TickCompletes(n)
      ELSE IF timers[t].closure = "startNavigation"
      THEN TickStartClosure(n)
      ELSE TickResumeClosure(n)

\* A live timer fires.
IntervalFires(t) ==
  /\ t \in DOMAIN timers
  /\ timers[t].live
  /\ budget.ticks > 0
  /\ budget' = [budget EXCEPT !.ticks = @ - 1]
  /\ request' = NoRequest
  /\ UNCHANGED <<call, result>>
  /\ TimerCallback(t)
  /\ Silent
  /\ UNCHANGED <<routes, joined>>

\* Ticks of navigation n that are awaiting a Fleet call.
AwaitingFleet(n) ==
  BagCardinality([p \in {q \in DOMAIN pending : /\ q.op = "tick" /\ q.nav = n
                                                /\ q.pc \in {"findOneAndUpdate", "findOne"}}
                  |-> pending[p]])

\* A live timer fires, in behaviours where a Fleet call settles within
\* MaxInFlight timer periods and timer firings are not counted.
IntervalFiresWithin(t) ==
  /\ t \in DOMAIN timers
  /\ timers[t].live
  /\ AwaitingFleet(timers[t].nav) < MaxInFlight
  /\ Internal
  /\ TimerCallback(t)
  /\ Silent
  /\ UNCHANGED <<routes, joined>>

\* Variant: a rejected Fleet.findOneAndUpdate ends the tick without emits
\* and stops the timer.
TickFindOneAndUpdateFatal(p, outcome) ==
  /\ BagIn(p, pending)
  /\ p.op = "tick" /\ p.pc = "findOneAndUpdate"
  /\ IF outcome = "rejects"
     THEN /\ timers' = clearInterval(timers, navs[p.nav].interval)
          /\ pending' = Resume(p)
          /\ UNCHANGED <<fleet, published, navs>>
     ELSE IF fleet[p.userId].exists
     THEN /\ fleet' = [fleet EXCEPT ![p.userId].coordinates = p.position]
          /\ TickTry(p.nav, p.position)
          /\ pending' = Resume(p)
          /\ UNCHANGED timers
     ELSE /\ pending' = Resume(p) (+) SetToBag({[p EXCEPT !.pc = "findOne"]})
          /\ UNCHANGED <<fleet, published, navs, timers>>
  /\ Silent
  /\ Internal
  /\ UNCHANGED <<activeNavigations, routes, joined>>

\* Fleet.findOneAndUpdate({_id: userId}) has settled. A rejection goes to the
\* catch block, which emits and advances; a found document is updated; with
\* no document the callback awaits Fleet.findOne.
TickFindOneAndUpdate(p, outcome) ==
  /\ BagIn(p, pending)
  /\ p.op = "tick" /\ p.pc = "findOneAndUpdate"
  /\ IF outcome = "rejects"
     THEN /\ TickCatch(p.nav, p.position)
          /\ pending' = Resume(p)
          /\ UNCHANGED fleet
     ELSE IF fleet[p.userId].exists
     THEN /\ fleet' = [fleet EXCEPT ![p.userId].coordinates = p.position]
          /\ TickTry(p.nav, p.position)
          /\ pending' = Resume(p)
     ELSE /\ pending' = Resume(p) (+) SetToBag({[p EXCEPT !.pc = "findOne"]})
          /\ UNCHANGED <<fleet, published, navs>>
  /\ Silent
  /\ Internal
  /\ UNCHANGED <<activeNavigations, timers, routes, joined>>

\* Fleet.findOne({userId}) has settled: resolved or rejected, the tick emits
\* and advances.
TickFindOne(p, outcome) ==
  /\ BagIn(p, pending)
  /\ p.op = "tick" /\ p.pc = "findOne"
  /\ IF outcome = "rejects"
     THEN TickCatch(p.nav, p.position)
     ELSE TickTry(p.nav, p.position)
  /\ pending' = Resume(p)
  /\ Silent
  /\ Internal
  /\ UNCHANGED <<activeNavigations, timers, routes, fleet, joined>>

\* The route update of the completion edge has settled: the route is dead and
\* the two completion events are emitted. A rejection is an unhandled
\* rejection of the callback: nothing is emitted.
TickComplete(p, outcome) ==
  /\ BagIn(p, pending)
  /\ p.op = "tick" /\ p.pc = "complete"
  /\ pending' = Resume(p)
  /\ IF outcome = "rejects"
     THEN UNCHANGED <<routes, published>>
     ELSE /\ routes' = RouteUpdate(routes, p.routeId, "dead", FALSE)
          /\ Emit(p.nav, EndEvents(p.nav, "navigation-completed", "route-completed"))
  /\ Silent
  /\ Internal
  /\ UNCHANGED <<activeNavigations, navs, timers, fleet, joined>>

\* ----------------------------------------------------- failing emits
\* The first k elements of a sequence.
Take(es, k) == SubSeq(es, 1, k)

\* A tick of the /startNavigation closure resumes after its Fleet call and
\* emit number k of the try block (1: location-update, 2: live-location-update)
\* throws. The emits before it were made; the catch block then makes both
\* emits again and increments currentIndex, unless its emit number c throws
\* as well (c = 0: none does): then the callback ends with a rejection and
\* currentIndex stays.
TickEmitThrows(p, k, c) ==
  /\ BagIn(p, pending)
  /\ p.op = "tick"
  /\ \/ p.pc = "findOne"
     \/ p.pc = "findOneAndUpdate" /\ fleet[p.userId].exists
  /\ fleet' = IF p.pc = "findOneAndUpdate"
              THEN [fleet EXCEPT ![p.userId].coordinates = p.position] ELSE fleet
  /\ pending' = Resume(p)
  /\ LET es == LocationEvents(p.nav, p.position)
     IN  IF c = 0
         THEN /\ Emit(p.nav, Take(es, k - 1) \o es)
              /\ navs' = [navs EXCEPT ![p.nav].currentIndex = @ + 1]
         ELSE /\ Emit(p.nav, Take(es, k - 1) \o Take(es, c - 1))
              /\ UNCHANGED navs
  /\ Silent
  /\ Internal
  /\ UNCHANGED <<activeNavigations, timers, routes, joined>>

\* A timer of the /resumeNavigation closure fires and emit number k throws:
\* the closure has no catch block, so the callback ends with a rejection
\* after the emits before it, and currentIndex stays.
ResumeClosureEmitThrows(t, k) ==
  /\ t \in DOMAIN timers
  /\ timers[t].live
  /\ timers[t].closure = "resumeNavigation"
  /\ budget.ticks > 0
  /\ budget' = [budget EXCEPT !.ticks = @ - 1]
  /\ request' = NoRequest
  /\ UNCHANGED <<call, result>>
  /\ LET n == timers[t].nav
     IN  /\ navs[n].currentIndex < Len(navs[n].movementPoints)
         /\ LET currentPosition == navs[n].movementPoints[navs[n].currentIndex + 1]
            IN  /\ navs' = [navs EXCEPT ![n].currentPosition = currentPosition]
                /\ Emit(n, Take(LocationEvents(n, currentPosition), k - 1))
  /\ Silent
  /\ UNCHANGED <<activeNavigations, timers, routes, fleet, joined, pending>>

\* ------------------------------------------------- POST /stopNavigation
\* Variant: the session is deleted and its timer is left running.
StopNavigationKeepsTimer(u) ==
  /\ AcceptRequest("stopNavigation", u, "")
  /\ IF ~Has(u)
     THEN /\ Respond("stopNavigation", u, "", Null, 404)
          /\ UNCHANGED <<activeNavigations, pending>>
     ELSE LET n == activeNavigations[u]
          IN  /\ activeNavigations' = [activeNavigations EXCEPT ![u] = Null]
              /\ pending' = Suspend(Suspended("stopNavigation", "findByIdAndUpdate", u,
                                              navs[n].routeId, n, Undefined))
              /\ Silent
  /\ UNCHANGED <<navs, timers, routes, fleet, joined, published>>

\* The request arrives: 404 without a session; else the timer is cleared,
\* the session is deleted and the handler awaits the route update.
StopNavigation(u) ==
  /\ AcceptRequest("stopNavigation", u, "")
  /\ IF ~Has(u)
     THEN /\ Respond("stopNavigation", u, "", Null, 404)
          /\ UNCHANGED <<timers, activeNavigations, pending>>
     ELSE LET n == activeNavigations[u]
          IN  /\ timers' = clearInterval(timers, navs[n].interval)
              /\ activeNavigations' = [activeNavigations EXCEPT ![u] = Null]
              /\ pending' = Suspend(Suspended("stopNavigation", "findByIdAndUpdate", u,
                                              navs[n].routeId, n, Undefined))
              /\ Silent
  /\ UNCHANGED <<navs, routes, fleet, joined, published>>

\* The route update has settled: the route is dead, the two stop events are
\* emitted and the handler answers; a rejection goes to the catch block (500).
StopNavigationUpdate(p, outcome) ==
  /\ BagIn(p, pending)
  /\ p.op = "stopNavigation" /\ p.pc = "findByIdAndUpdate"
  /\ pending' = Resume(p)
  /\ IF outcome = "rejects"
     THEN /\ Respond("stopNavigation", p.userId, p.routeId, p.nav, 500)
          /\ UNCHANGED <<routes, published>>
     ELSE /\ routes' = RouteUpdate(routes, p.routeId, "dead", FALSE)
          /\ Emit(p.nav, EndEvents(p.nav, "navigation-stopped", "route-stopped"))
          /\ Respond("stopNavigation", p.userId, p.routeId, p.nav, 200)
  /\ Internal
  /\ UNCHANGED <<activeNavigations, navs, timers, fleet, joined>>

\* ------------------------------------------------ POST /pauseNavigation
\* Variant: a vehicle without a session is answered with success.
PauseNavigationUnchecked(u) ==
  /\ AcceptRequest("pauseNavigation", u, "")
  /\ IF ~Has(u)
     THEN /\ Respond("pauseNavigation", u, "", Null, 200)
          /\ UNCHANGED <<timers, navs>>
     ELSE LET n == activeNavigations[u]
          IN  /\ IF navs[n].interval # Null
                 THEN /\ timers' = clearInterval(timers, navs[n].interval)
                      /\ navs' = [navs EXCEPT ![n].interval = Null, ![n].status = "paused"]
                 ELSE UNCHANGED <<timers, navs>>
              /\ Respond("pauseNavigation", u, navs[n].routeId, n, 200)
  /\ UNCHANGED <<activeNavigations, routes, fleet, joined, pending, published>>

PauseNavigation(u) ==
  /\ AcceptRequest("pauseNavigation", u, "")
  /\ IF ~Has(u)
     THEN /\ Respond("pauseNavigation", u, "", Null, 404)
          /\ UNCHANGED <<timers, navs>>
     ELSE LET n == activeNavigations[u]
          IN  /\ IF navs[n].interval # Null
                 THEN /\ timers' = clearInterval(timers, navs[n].interval)
                      /\ navs' = [navs EXCEPT ![n].interval = Null, ![n].status = "paused"]
                 ELSE UNCHANGED <<timers, navs>>
              /\ Respond("pauseNavigation", u, navs[n].routeId, n, 200)
  /\ UNCHANGED <<activeNavigations, routes, fleet, joined, pending, published>>

\* ----------------------------------------------- POST /resumeNavigation
\* Variant: the status of the session is not looked at.
ResumeNavigationAlways(u) ==
  /\ AcceptRequest("resumeNavigation", u, "")
  /\ IF ~Has(u)
     THEN /\ Respond("resumeNavigation", u, "", Null, 404)
          /\ UNCHANGED <<timers, navs>>
     ELSE LET n == activeNavigations[u]
              t == Len(timers) + 1
          IN  /\ timers' = Append(timers, [nav |-> n, closure |-> "resumeNavigation", live |-> TRUE])
              /\ navs' = [navs EXCEPT ![n].interval = t, ![n].status = "active"]
              /\ Respond("resumeNavigation", u, navs[n].routeId, n, 200)
  /\ UNCHANGED <<activeNavigations, routes, fleet, joined, pending, published>>

ResumeNavigation(u) ==
  /\ AcceptRequest("resumeNavigation", u, "")
  /\ IF ~Has(u)
     THEN /\ Respond("resumeNavigation", u, "", Null, 404)
          /\ UNCHANGED <<timers, navs>>
     ELSE LET n == activeNavigations[u]
              t == Len(timers) + 1
          IN  /\ IF navs[n].status = "paused"
                 THEN /\ timers' = Append(timers, [nav |-> n, closure |-> "resumeNavigation", live |-> TRUE])
                      /\ navs' = [navs EXCEPT ![n].interval = t, ![n].status = "active"]
                 ELSE UNCHANGED <<timers, navs>>
              /\ Respond("resumeNavigation", u, navs[n].routeId, n, 200)
  /\ UNCHANGED <<activeNavigations, routes, fleet, joined, pending, published>>

\* ------------------------------------------------------ status queries
\* The response of a status query: its body is the set of session snapshots
\* it carries (activeNavigation: null is the empty set).
QueryResponse(op, u, code, body) ==
  [op |-> op, userId |-> u, routeId |-> "", nav |-> Null, code |-> code, body |-> body]

\* progress as both queries compute it, the fraction <<currentIndex * 100, length>>.
Progress(n) == <<navs[n].currentIndex * 100, Len(navs[n].movementPoints)>>

\* The activeNavigation object of GET /getActiveNavigation.
ActiveNavigation(n) ==
  [routeId |-> navs[n].routeId, status |-> navs[n].status, progress |-> Progress(n),
   currentIndex |-> navs[n].currentIndex,
   totalPoints |-> Len(navs[n].movementPoints),
   currentPosition |-> navs[n].currentPosition]

\* An element of liveRoutes of GET /getLiveTracking.
LiveRoute(u) ==
  LET n == activeNavigations[u]
  IN  [userId |-> u, routeId |-> navs[n].routeId,
       currentPosition |-> navs[n].currentPosition, progress |-> Progress(n),
       status |-> "alive"]

\* Variant: the query takes the session out of the table.
GetActiveNavigationTakes(u) ==
  /\ AcceptRequest("getActiveNavigation", u, "")
  /\ IF u = ""
     THEN /\ response' = QueryResponse("getActiveNavigation", u, 400, {})
          /\ UNCHANGED activeNavigations
     ELSE IF ~Has(u)
     THEN /\ response' = QueryResponse("getActiveNavigation", u, 200, {})
          /\ UNCHANGED activeNavigations
     ELSE /\ response' = QueryResponse("getActiveNavigation", u, 200,
                                       {ActiveNavigation(activeNavigations[u])})
          /\ activeNavigations' = [activeNavigations EXCEPT ![u] = Null]
  /\ UNCHANGED <<navs, timers, routes, fleet, joined, pending, published>>

\* GET /getActiveNavigation: 400 without a userId, null without a session,
\* else a snapshot of the session.
GetActiveNavigation(u) ==
  /\ AcceptRequest("getActiveNavigation", u, "")
  /\ response' =
       IF u = "" THEN QueryResponse("getActiveNavigation", u, 400, {})
       ELSE IF ~Has(u) THEN QueryResponse("getActiveNavigation", u, 200, {})
       ELSE QueryResponse("getActiveNavigation", u, 200,
                          {ActiveNavigation(activeNavigations[u])})
  /\ UNCHANGED <<activeNavigations, navs, timers, routes, fleet, joined, pending,
                 published>>

\* GET /getLiveTracking: one entry per session in the table.
GetLiveTracking ==
  /\ AcceptRequest("getLiveTracking", "", "")
  /\ response' = QueryResponse("getLiveTracking", "", 200,
                               {LiveRoute(u) : u \in {v \in Users : Has(v)}})
  /\ UNCHANGED <<activeNavigations, navs, timers, routes, fleet, joined, pending,
                 published>>

\* --------------------------------------------------------------- sockets
\* 'join-user': the socket joins the user's room and remembers the userId.
JoinUser(u) ==
  /\ AcceptRequest("join-user", u, "")
  /\ u \notin joined
  /\ joined' = joined \cup {u}
  /\ Silent
  /\ UNCHANGED <<activeNavigations, navs, timers, routes, fleet, pending, published>>

\* 'disconnect' of a socket that joined as u: the user's navigation, if any,
\* has its timer cleared and is deleted from the table.
Disconnect(u) ==
  /\ AcceptRequest("disconnect", u, "")
  /\ u \in joined
  /\ joined' = joined \ {u}
  /\ IF Has(u)
     THEN LET n == activeNavigations[u]
          IN  /\ timers' = IF navs[n].interval # Null
                           THEN clearInterval(timers, navs[n].interval) ELSE timers
              /\ activeNavigations' = [activeNavigations EXCEPT ![u] = Null]
     ELSE UNCHANGED <<timers, activeNavigations>>
  /\ Silent
  /\ UNCHANGED <<navs, routes, fleet, pending, published>>

\* ------------------------------------------------------------ behaviours
Idle ==
  /\ activeNavigations = [u \in Users |-> Null]
  /\ navs = <<>>
  /\ timers = <<>>
  /\ routes = [r \in DOMAIN RouteDocs |-> [status |-> "created", isActive |-> FALSE]]
  /\ joined = {}
  /\ pending = EmptyBag
  /\ published = <<>>
  /\ request = NoRequest
  /\ response = NoResponse

InitState ==
  /\ Idle
  /\ call = NoCall
  /\ result = NoResult

Init ==
  /\ InitState
  /\ fleet = FleetDocs
  /\ budget = [requests |-> MaxRequests, ticks |-> MaxTicks]

\* The requests, socket events, timer firings and store completions of the
\* users US, who ask for the routes RS.
NextOf(US, RS) ==
  \/ \E u \in US, r \in RS : StartNavigation(u, r)
  \/ \E p \in BagToSet(pending), o \in StoreOutcomes : StartNavigationFindById(p, o)
  \/ \E p \in BagToSet(pending), o \in StoreOutcomes : StartNavigationUpdate(p, o)
  \/ \E t \in DOMAIN timers : IntervalFires(t)
  \/ \E p \in BagToSet(pending), o \in StoreOutcomes : TickFindOneAndUpdate(p, o)
  \/ \E p \in BagToSet(pending), o \in StoreOutcomes : TickFindOne(p, o)
  \/ \E p \in BagToSet(pending), o \in StoreOutcomes : TickComplete(p, o)
  \/ \E u \in US : StopNavigation(u)
  \/ \E p \in BagToSet(pending), o \in StoreOutcomes : StopNavigationUpdate(p, o)
  \/ \E u \in US : PauseNavigation(u)
  \/ \E u \in US : ResumeNavigation(u)
  \/ \E u \in US : JoinUser(u)
  \/ \E u \in US : Disconnect(u)

\* One vehicle, without a Fleet document, and every route id.
Next == NextOf({"A"}, RouteIds)

Spec == Init /\ [][Next]_vars

\* One vehicle, with or without a Fleet document, on its own route, with more
\* timer firings.
InitLatency ==
  /\ InitState
  /\ \E e \in BOOLEAN : fleet = [FleetDocs EXCEPT !["A"].exists = e]
  /\ budget = [requests |-> MaxLatencyRequests, ticks |-> MaxLatencyTicks]

NextLatency == NextOf({"A"}, {"R1"})

SpecLatency == InitLatency /\ [][NextLatency]_vars

\* Two vehicles, each with its own route.
InitFleet ==
  /\ InitState
  /\ fleet = FleetDocs
  /\ budget = [requests |-> MaxFleetRequests, ticks |-> MaxFleetTicks]

NextFleet == NextOf(Users, {"R1", "R2", "R4"})

SpecFleet == InitFleet /\ [][NextFleet]_vars

\* The steps in which a store call settles and its handler continues.
StoreSettles ==
  \E p \in BagToSet(pending), o \in StoreOutcomes :
    \/ StartNavigationFindById(p, o)
    \/ StartNavigationUpdate(p, o)
    \/ TickFindOneAndUpdate(p, o)
    \/ TickFindOne(p, o)
    \/ TickComplete(p, o)
    \/ StopNavigationUpdate(p, o)

\* One vehicle on its route: live timers keep firing and store calls keep
\* settling.
InitLive ==
  /\ InitState
  /\ fleet = FleetDocs
  /\ budget = [requests |-> MaxLiveRequests, ticks |-> 0]

NextLive ==
  \/ StartNavigation("A", "R1")
  \/ StoreSettles
  \/ \E t \in DOMAIN timers : IntervalFiresWithin(t)
  \/ StopNavigation("A")
  \/ PauseNavigation("A")
  \/ ResumeNavigation("A")
  \/ JoinUser("A")
  \/ Disconnect("A")

SpecLive ==
  /\ InitLive /\ [][NextLive]_vars
  /\ WF_vars(\E t \in DOMAIN timers : IntervalFiresWithin(t))
  /\ WF_vars(StoreSettles)

\* One vehicle on its routes, with emits that may throw.
InitPublish ==
  /\ InitState
  /\ fleet = FleetDocs
  /\ budget = [requests |-> MaxPublishRequests, ticks |-> MaxPublishTicks]

NextPublish ==
  \/ NextOf({"A"}, {"R1", "R4"})
  \/ \E p \in BagToSet(pending), k \in {1, 2}, c \in {0, 1, 2} : TickEmitThrows(p, k, c)
  \/ \E t \in DOMAIN timers, k \in {1, 2} : ResumeClosureEmitThrows(t, k)

SpecPublish == InitPublish /\ [][NextPublish]_vars

\* One vehicle on its routes, with status queries for it, for a vehicle
\* that never starts, and without a userId.
InitQuery ==
  /\ InitState
  /\ fleet = FleetDocs
  /\ budget = [requests |-> MaxQueryRequests, ticks |-> MaxQueryTicks]

NextQuery ==
  \/ NextOf({"A"}, {"R1", "R4"})
  \/ \E u \in Users \cup {""} : GetActiveNavigation(u)
  \/ GetLiveTracking

SpecQuery == InitQuery /\ [][NextQuery]_vars

\* -------------------------------------------------- the planner by itself
\* The navigation engine's variables, which a planner or locator call
\* leaves alone.
engine == <<activeNavigations, navs, timers, routes, fleet, joined, pending,
            published, request, response, budget>>

Returns(value) == [status |-> "returns", value |-> value]
Throws(error) == [status |-> "throws", error |-> error]

\* processRouteForMovement(routeData) is called and returns its movement
\* points or throws the TypeError of its loop.
ProcessRouteForMovement ==
  /\ call.fn = "processRouteForMovement"
  /\ result = NoResult
  /\ result' = IF PlanThrows(call.route)
                THEN Throws("TypeError")
                ELSE Returns(processRouteForMovement(call.route))
  /\ UNCHANGED <<engine, call>>

InitPlan ==
  /\ Idle
  /\ fleet = FleetDocs
  /\ budget = [requests |-> 0, ticks |-> 0]
  /\ call \in [fn : {"processRouteForMovement"}, route : PlanRoutes]
  /\ result = NoResult

NextPlan == ProcessRouteForMovement

SpecPlan == InitPlan /\ [][NextPlan]_vars


\* ================================================================ claims
IsLocationUpdate(e) == e.event = "location-update"

\* The location-update events navigation n has published.
LocationUpdates(pub, n) == SelectSeq(pub[n], IsLocationUpdate)

\* How many events named ev navigation n has published.
CountEvent(pub, n, ev) == Cardinality({i \in 1..Len(pub[n]) : pub[n][i].event = ev})

\* Non-completion ticks of navigation n that are awaiting the store.
InFlight(pend, n) ==
  BagCardinality([p \in {q \in DOMAIN pend : /\ q.op = "tick" /\ q.nav = n
                                            /\ q.pc \in {"findOneAndUpdate", "findOne"}}
                  |-> pend[p]])

LiveTimersOfNav(ts, n) == {t \in DOMAIN ts : ts[t].live /\ ts[t].nav = n}

LiveTimersOfUser(u) == {t \in DOMAIN timers : timers[t].live /\ navs[timers[t].nav].userId = u}

\* The navigation objects of user u that are in the table or have a live timer.
SessionsOfUser(u) ==
  {n \in DOMAIN navs : /\ navs[n].userId = u
                       /\ (activeNavigations[u] = n \/ LiveTimersOfNav(timers, n) # {})}

\* C1: at every moment a vehicle has at most one navigation session and at
\* most one live tick timer, also when two start requests for it overlap.
C1_OneSessionOneTimer ==
  \A u \in Users : /\ Cardinality(SessionsOfUser(u)) <= 1
                   /\ Cardinality(LiveTimersOfUser(u)) <= 1

\* C2: a start request that arrives while the vehicle has a session is
\* answered with the conflict error (400) in the same step, and that step
\* changes neither the table, the navigation objects (index, status, position,
\* points), the timers, the store nor the published events, and suspends no
\* handler.
C2_StartConflictChangesNothing ==
  [][(request'.op = "startNavigation" /\ Has(request'.userId))
       => /\ response' = Response("startNavigation", request'.userId, request'.routeId, Null, 400)
          /\ UNCHANGED <<activeNavigations, navs, timers, routes, fleet, pending, published>>]_vars

C2_Witness ==
  /\ request.op = "startNavigation"
  /\ response.code = 400
  /\ Has(request.userId)
  /\ navs[activeNavigations[request.userId]].currentIndex >= 1

\* The route is absent from the store or belongs to another vehicle.
AbsentOrForeign(u, r) == r \notin DOMAIN RouteDocs \/ RouteDocs[r].userId # u

\* C3: when the load of a start settles on a route that is absent or owned by
\* another vehicle, the start ends there with an error (404; 500 when the
\* load itself rejected), and no session, timer or route field changes; 404
\* is sent for such routes only and no session ever holds such a route.
C3_RouteNotFoundChangesNothing ==
  /\ [][\A p \in BagToSet(pending) :
          (/\ p.op = "startNavigation" /\ p.pc = "findById"
           /\ AbsentOrForeign(p.userId, p.routeId)
           /\ CopiesIn(p, pending') < CopiesIn(p, pending))
            => /\ response'.op = "startNavigation"
               /\ response'.code \in {404, 500}
               /\ pending' = pending (-) SetToBag({p})
               /\ UNCHANGED <<activeNavigations, navs, timers, routes, published>>]_vars
  /\ [](response.op = "startNavigation" /\ response.code = 404
          => AbsentOrForeign(response.userId, response.routeId))
  /\ [](\A n \in DOMAIN navs : ~AbsentOrForeign(navs[n].userId, navs[n].routeId))

C3_Witness ==
  /\ response = Response("startNavigation", "A", "R2", Null, 404)
  /\ routes["R2"].status = "created"
  /\ navs = <<>>

\* C4: a start that ends in an error has left the store as it was: the step
\* that answers a start with an error does not change any route's status or
\* active flag.
C4_StartAllOrNothing ==
  [][(response'.op = "startNavigation" /\ response'.code # 200) => routes' = routes]_vars

\* C5: every non-completion tick increases currentIndex by exactly one: in
\* every step a navigation's index grows by the number of location-update
\* events it publishes in that step, which is 0 or 1, and a step in which one
\* of its ticks stops awaiting the store for good grows it by 1.
C5_TickAdvancesByOne ==
  [][\A n \in DOMAIN navs :
       LET d == Len(LocationUpdates(published', n)) - Len(LocationUpdates(published, n))
           settled == InFlight(pending', n) < InFlight(pending, n)
       IN  /\ d \in {0, 1}
           /\ navs'[n].currentIndex = navs[n].currentIndex + d
           /\ settled => d = 1]_vars

C5_Witness ==
  \E n \in DOMAIN navs : /\ navs[n].status = "active"
                         /\ navs[n].currentIndex >= 2
                         /\ InFlight(pending, n) >= 1

\* progress of an event, a fraction <<num, den>>, is within [0, 100].
ProgressInRange(e) == e.progress[1] >= 0 /\ e.progress[1] <= 100 * e.progress[2]

\* C6: the progress of the location-update and live-location-update events
\* of a session is within [0,100] and never decreases, and
\* estimatedTimeRemaining is never negative.
C6_ProgressBounded ==
  \A n \in DOMAIN published : \A i \in 1..Len(published[n]) :
    LET e == published[n][i]
    IN  e.event \in {"location-update", "live-location-update"}
          => /\ ProgressInRange(e)
             /\ e.event = "location-update" => e.estimatedTimeRemaining >= 0
             /\ \A j \in 1..(i - 1) :
                  published[n][j].event = e.event
                    => published[n][j].progress[1] <= e.progress[1]

\* C7: a session that has published navigation-completed has published, in
\* its location-update events, exactly the positions movementPoints[0..n-1],
\* in that order and once each.
C7_EveryPointOnce ==
  \A n \in DOMAIN navs :
    CountEvent(published, n, "navigation-completed") > 0
      => [i \in 1..Len(LocationUpdates(published, n)) |-> LocationUpdates(published, n)[i].position]
           = navs[n].movementPoints

\* C8: pause on an active session sets its status to paused without touching
\* index or position, and while the session stays paused in the table its
\* currentIndex and currentPosition do not change.
C8_PausePreservesIndex ==
  [][\A u \in Users :
       LET n == activeNavigations[u]
       IN  /\ (request'.op = "pauseNavigation" /\ request'.userId = u /\ n # Null
                 /\ navs[n].status = "active")
             => /\ navs'[n].status = "paused"
                /\ navs'[n].currentIndex = navs[n].currentIndex
                /\ navs'[n].currentPosition = navs[n].currentPosition
           /\ (n # Null /\ activeNavigations'[u] = n
                 /\ navs[n].status = "paused" /\ navs'[n].status = "paused")
             => /\ navs'[n].currentIndex = navs[n].currentIndex
                /\ navs'[n].currentPosition = navs[n].currentPosition]_vars

\* Pause (status paused) or stop (navigation-stopped published with the 200
\* answer) has been acknowledged for navigation n.
Cancelled(nv, pub, n) ==
  nv[n].status = "paused" \/ CountEvent(pub, n, "navigation-stopped") > 0

\* C9: once pause or stop has been acknowledged for a session, and until it
\* is resumed, no step publishes a location-update of that session, advances
\* its index or writes a position for it to the store.
C9_NoEffectAfterCancel ==
  [][\A n \in DOMAIN navs :
       (Cancelled(navs, published, n) /\ Cancelled(navs', published', n))
         => /\ Len(LocationUpdates(published', n)) = Len(LocationUpdates(published, n))
            /\ navs'[n].currentIndex = navs[n].currentIndex
            /\ InFlight(pending', n) < InFlight(pending, n) => fleet' = fleet]_vars

\* C10: a stop request for a vehicle with a session clears the session's
\* timer and deletes it from the table at once; when the stop is answered
\* (200) the session's route is dead and inactive in the store, the session
\* is not in the table, has no live timer, and has published navigation-stopped
\* and route-stopped once each; no session ever publishes either twice.
C10_StopEndsSession ==
  /\ [][(request'.op = "stopNavigation" /\ Has(request'.userId))
          => /\ activeNavigations'[request'.userId] = Null
             /\ LiveTimersOfNav(timers', activeNavigations[request'.userId]) = {}]_vars
  /\ [][(response'.op = "stopNavigation" /\ response'.code = 200)
          => LET n == response'.nav
             IN  /\ routes'[navs[n].routeId] = [status |-> "dead", isActive |-> FALSE]
                 /\ activeNavigations'[navs[n].userId] # n
                 /\ LiveTimersOfNav(timers', n) = {}
                 /\ CountEvent(published', n, "navigation-stopped") = 1
                 /\ CountEvent(published', n, "route-stopped") = 1
                 /\ published'[n][Len(published'[n]) - 1].room = navs[n].userId
                 /\ published'[n][Len(published'[n])].room = "fleet-manager"]_vars
  /\ [](\A n \in DOMAIN published :
          /\ CountEvent(published, n, "navigation-stopped") <= 1
          /\ CountEvent(published, n, "route-stopped") <= 1)

C10_Witness ==
  /\ response.op = "stopNavigation"
  /\ response.code = 200
  /\ navs[response.nav].currentIndex >= 1
  /\ CountEvent(published, response.nav, "navigation-stopped") = 1

\* A completion tick of navigation n is awaiting the route update.
CompletionPending(pend, n) ==
  \E p \in BagToSet(pend) : p.op = "tick" /\ p.pc = "complete" /\ p.nav = n

\* A timer of navigation n fires in this step.
Fires(n) ==
  /\ budget'.ticks < budget.ticks
  /\ \/ navs'[n] # navs[n]
     \/ published'[n] # published[n]
     \/ timers' # timers /\ LiveTimersOfNav(timers', n) # LiveTimersOfNav(timers, n)
     \/ InFlight(pending', n) # InFlight(pending, n)

\* C11: completion happens exactly once per session. A timer firing that
\* finds currentIndex >= len(movementPoints) clears the session's timer,
\* deletes the vehicle's table entry and publishes no location-update; when
\* its route update has settled the route is dead and inactive and
\* navigation-completed (vehicle room) and route-completed (fleet-manager
\* room) are published, once each; no session publishes either twice, and a
\* session that was stopped publishes neither.
C11_CompletionOnce ==
  /\ [][\A n \in DOMAIN navs :
          /\ (Fires(n) /\ navs[n].currentIndex >= Len(navs[n].movementPoints))
               => /\ CompletionPending(pending', n)
                  /\ LiveTimersOfNav(timers', n) = {}
                  /\ activeNavigations'[navs[n].userId] = Null
                  /\ published'[n] = published[n]
                  /\ navs'[n] = navs[n]
          /\ (~CompletionPending(pending, n) /\ CompletionPending(pending', n))
               => navs[n].currentIndex >= Len(navs[n].movementPoints)
          /\ CountEvent(published', n, "navigation-completed")
               > CountEvent(published, n, "navigation-completed")
               => /\ CompletionPending(pending, n) /\ ~CompletionPending(pending', n)
                  /\ routes'[navs[n].routeId] = [status |-> "dead", isActive |-> FALSE]
                  /\ published'[n] = published[n]
                       \o EndEvents(n, "navigation-completed", "route-completed")
                  /\ activeNavigations'[navs[n].userId] # n
                  /\ LiveTimersOfNav(timers', n) = {}]_vars
  /\ [](\A n \in DOMAIN published :
          /\ CountEvent(published, n, "navigation-completed") <= 1
          /\ CountEvent(published, n, "route-completed") <= 1
          /\ CountEvent(published, n, "navigation-stopped") > 0
               => /\ CountEvent(published, n, "navigation-completed") = 0
                  /\ ~CompletionPending(pending, n))

\* A session that was paused and resumed has completed through the closure
\* of /resumeNavigation.
C11_Witness ==
  \E n \in DOMAIN navs :
    /\ CountEvent(published, n, "navigation-completed") = 1
    /\ CountEvent(published, n, "route-completed") = 1
    /\ routes[navs[n].routeId].status = "dead"
    /\ \E t \in DOMAIN timers : timers[t].nav = n /\ timers[t].closure = "resumeNavigation"

\* Navigation n has completed: it is out of the table, its route is dead
\* and navigation-completed has been published.
Completed(n) ==
  /\ n \in DOMAIN navs
  /\ activeNavigations[navs[n].userId] # n
  /\ routes[navs[n].routeId] = [status |-> "dead", isActive |-> FALSE]
  /\ CountEvent(published, n, "navigation-completed") > 0

\* C12: a session that is in the table and from then on is never paused and
\* whose vehicle never gets a pause or stop request eventually completes:
\* it leaves the table, its route becomes dead and inactive and
\* navigation-completed is published (timers fire and store calls settle
\* fairly).
C12_SessionEventuallyCompletes ==
  \A n \in 1..MaxLiveRequests :
    []((/\ n \in DOMAIN navs
        /\ activeNavigations[navs[n].userId] = n
        /\ [](/\ n \in DOMAIN navs
              /\ navs[n].status = "active"
              /\ request.op \notin {"pauseNavigation", "stopNavigation"}))
         => <>Completed(n))

\* C13: ticking is resilient to the store. Whenever a Fleet call of a tick
\* settles, resolved or rejected, the tick either publishes location-update
\* and live-location-update for the point it took and advances currentIndex
\* by one, or (no Fleet document for the vehicle) goes on to Fleet.findOne,
\* after which it publishes and advances; no Fleet document is created, and
\* no timer is cleared.
C13_TickSurvivesStore ==
  [][\A p \in BagToSet(pending) :
       (/\ p.op = "tick" /\ p.pc \in {"findOneAndUpdate", "findOne"}
        /\ CopiesIn(p, pending') < CopiesIn(p, pending))
         => /\ timers' = timers
            /\ ~fleet[p.userId].exists => fleet' = fleet
            /\ \/ /\ published'[p.nav] = published[p.nav] \o LocationEvents(p.nav, p.position)
                  /\ navs'[p.nav].currentIndex = navs[p.nav].currentIndex + 1
                  /\ pending' = pending (-) SetToBag({p})
               \/ /\ p.pc = "findOneAndUpdate"
                  /\ ~fleet[p.userId].exists
                  /\ pending' = (pending (-) SetToBag({p}))
                                  (+) SetToBag({[p EXCEPT !.pc = "findOne"]})
                  /\ UNCHANGED <<published, navs>>]_vars

\* A vehicle without a Fleet document has been ticked twice and its timer
\* is still running.
C13_Witness ==
  \E n \in DOMAIN navs :
    /\ ~fleet[navs[n].userId].exists
    /\ fleet = [FleetDocs EXCEPT !["A"].exists = FALSE]
    /\ Len(LocationUpdates(published, n)) >= 2
    /\ navs[n].currentIndex >= 2
    /\ LiveTimersOfNav(timers, n) # {}

\* C14: a tick advances currentIndex by exactly one also when an emit
\* throws, and a throwing emit causes no extra emits: in every step a session
\* publishes at most two events, a tick that stops awaiting the store for
\* good has advanced currentIndex by one, and every published
\* location-update goes with an advance by one.
C14_EmitFailureAdvances ==
  [][\A n \in DOMAIN navs :
       /\ Len(published'[n]) - Len(published[n]) <= 2
       /\ InFlight(pending', n) < InFlight(pending, n)
            => navs'[n].currentIndex = navs[n].currentIndex + 1
       /\ Len(LocationUpdates(published', n)) > Len(LocationUpdates(published, n))
            => navs'[n].currentIndex = navs[n].currentIndex + 1]_vars

\* C15: pause and resume are idempotent. A pause request for a paused
\* session and a resume request for an active session are answered with
\* success (200) and change nothing: the table, every navigation object
\* (status, currentIndex, currentPosition, interval), the timers, the store,
\* the suspended handlers and the published events stay as they were; in
\* particular resume on an active session creates no timer.
C15_PauseResumeIdempotent ==
  [][\A u \in Users :
       LET n == activeNavigations[u]
       IN  (/\ request'.userId = u
            /\ n # Null
            /\ \/ request'.op = "pauseNavigation" /\ navs[n].status = "paused"
               \/ request'.op = "resumeNavigation" /\ navs[n].status = "active")
             => /\ response' = Response(request'.op, u, navs[n].routeId, n, 200)
                /\ LiveTimersOfNav(timers', n) = LiveTimersOfNav(timers, n)
                /\ UNCHANGED <<activeNavigations, navs, timers, routes, fleet,
                               pending, published>>]_vars

\* Resume has been answered for a session that was ticked and never paused:
\* its only timer is the one /startNavigation created.
C15_Witness ==
  /\ request.op = "resumeNavigation"
  /\ response.code = 200
  /\ Len(timers) = 1
  /\ timers[1].live
  /\ navs[response.nav].status = "active"
  /\ navs[response.nav].currentIndex >= 1

\* C16: a pause, resume or stop request for a vehicle without a session in
\* the table is answered with session-not-found (404) in the same step, and
\* that step changes nothing: the vehicle still has no table entry, no
\* navigation object, timer or route status changes, no handler is suspended
\* and no event is published.
C16_SessionNotFoundChangesNothing ==
  [][(/\ request'.op \in {"pauseNavigation", "resumeNavigation", "stopNavigation"}
      /\ ~Has(request'.userId))
       => /\ response' = Response(request'.op, request'.userId, "", Null, 404)
          /\ activeNavigations'[request'.userId] = Null
          /\ UNCHANGED <<activeNavigations, navs, timers, routes, fleet, pending,
                         published>>]_vars

\* Stop is answered 404 for a vehicle whose session has completed.
C16_Witness ==
  /\ request.op = "stopNavigation"
  /\ response.code = 404
  /\ \E n \in DOMAIN navs : /\ navs[n].userId = request.userId
                            /\ CountEvent(published, n, "navigation-completed") = 1

\* C17: the status queries are read-only. A step that answers
\* /getActiveNavigation or /getLiveTracking leaves the table, every
\* navigation object, the timers, the store, the suspended handlers, the
\* sockets and the published events unchanged; /getActiveNavigation returns
\* no session exactly when the table has no entry for the vehicle, else the
\* fields of that entry, and /getLiveTracking returns one entry per vehicle
\* in the table.
C17_QueriesReadOnly ==
  [][(request'.op \in {"getActiveNavigation", "getLiveTracking"})
       => /\ UNCHANGED <<activeNavigations, navs, timers, routes, fleet, joined,
                         pending, published>>
          /\ response'.op = request'.op
          /\ (request'.op = "getActiveNavigation" /\ request'.userId \in Users)
               => /\ response'.code = 200
                  /\ response'.body = {} <=> ~Has(request'.userId)
                  /\ \A b \in response'.body :
                       LET nv == navs'[activeNavigations'[request'.userId]]
                       IN  /\ b.routeId = nv.routeId
                           /\ b.status = nv.status
                           /\ b.currentIndex = nv.currentIndex
                           /\ b.currentPosition = nv.currentPosition
          /\ request'.op = "getLiveTracking"
               => {b.userId : b \in response'.body} = {u \in Users : Has(u)}]_vars

\* /getActiveNavigation has answered with the snapshot of a running session
\* that was ticked.
C17_Witness ==
  /\ request.op = "getActiveNavigation"
  /\ response.op = "getActiveNavigation"
  /\ \E b \in response.body : b.currentIndex >= 1
  /\ Has(request.userId)
  /\ LiveTimersOfUser(request.userId) # {}

\* How many events navigation n has published to a room.
CountRoom(pub, n, room) == Cardinality({i \in 1..Len(pub[n]) : pub[n][i].room = room})

\* This step changes something of vehicle u: its table entry, one of its
\* navigation objects or their timers, the status of one of its routes, its
\* Fleet document, or the events published to its room.
Touched(u) ==
  \/ activeNavigations'[u] # activeNavigations[u]
  \/ \E n \in DOMAIN navs' :
       /\ navs'[n].userId = u
       /\ \/ n \notin DOMAIN navs
          \/ navs'[n] # navs[n]
          \/ published'[n] # published[n]
  \/ \E t \in DOMAIN timers' :
       /\ navs'[timers'[t].nav].userId = u
       /\ t \in DOMAIN timers => timers'[t] # timers[t]
  \/ \E r \in DOMAIN RouteDocs : RouteDocs[r].userId = u /\ routes'[r] # routes[r]
  \/ fleet'[u] # fleet[u]
  \/ \E n \in DOMAIN published : CountRoom(published', n, u) # CountRoom(published, n, u)

C19_IndexSequential ==
  \A n \in DOMAIN published :
    \A i \in 1..Len(LocationUpdates(published, n)) :
      /\ LocationUpdates(published, n)[i].currentIndex = i - 1
      /\ LocationUpdates(published, n)[i].room = navs[n].userId

\* A session was paused while a tick awaited the store and then resumed:
\* it has published two location-updates, one from each closure.
C19_Witness ==
  \E n \in DOMAIN navs :
    /\ Len(LocationUpdates(published, n)) >= 2
    /\ navs[n].currentIndex >= 2
    /\ \E t \in DOMAIN timers : timers[t].nav = n /\ timers[t].closure = "resumeNavigation"

\* The completion edge of navigation n is taken in this step.
CompletionEdge(n) == ~CompletionPending(pending, n) /\ CompletionPending(pending', n)

\* C20: a session leaves the table only through stop or natural completion,
\* and its timer is cancelled only by pause, stop or completion: a step in
\* which a vehicle's table entry disappears is a stop request of that vehicle
\* or the completion edge of one of its sessions, and no other step (a socket
\* joining or disconnecting in particular) clears a live timer.
C20_OnlyStopOrCompletionRemoves ==
  [][/\ \A u \in Users :
          (Has(u) /\ activeNavigations'[u] = Null)
            => \/ request'.op = "stopNavigation" /\ request'.userId = u
               \/ \E n \in DOMAIN navs : navs[n].userId = u /\ CompletionEdge(n)
     /\ \A t \in DOMAIN timers :
          (timers[t].live /\ ~timers'[t].live)
            => \/ /\ request'.op \in {"pauseNavigation", "stopNavigation"}
                  /\ request'.userId = navs[timers[t].nav].userId
               \/ CompletionEdge(timers[t].nav)]_vars

\* The planner has been applied to a route.
Planned == call.fn = "processRouteForMovement" /\ result # NoResult

\* The least integer not below tenths / 10.
CeilOfTenths(tenths) ==
  CHOOSE n \in 0..(tenths + 1) : n * 10 >= tenths /\ (n - 1) * 10 < tenths

\* C21: for every route with at least 2 coordinates and every non-negative
\* duration the planner returns exactly max(ceil(duration), coordinates)
\* movement points.
C21_PlanLength ==
  (Planned /\ Len(call.route.coordinates) >= 2)
    => /\ result.status = "returns"
       /\ \/ Len(result.value) = CeilOfTenths(call.route.durationTenths)
          \/ Len(result.value) = Len(call.route.coordinates)
       /\ Len(result.value) >= CeilOfTenths(call.route.durationTenths)
       /\ Len(result.value) >= Len(call.route.coordinates)

\* A route of 3 coordinates and 2.1 seconds has been planned: 3 points.
C21_Witness ==
  /\ Planned
  /\ Len(call.route.coordinates) = 3
  /\ call.route.durationTenths = 21
  /\ result.status = "returns"
  /\ Len(result.value) = 3

\* The point <<x, y, d>> is the vertex a moved towards the vertex b by the
\* fraction r / den of the way.
Interpolates(pt, a, b, r, den) ==
  /\ pt[3] > 0
  /\ pt[1] * den = pt[3] * (a[1] * den + (b[1] - a[1]) * r)
  /\ pt[2] * den = pt[3] * (a[2] * den + (b[2] - a[2]) * r)

\* C22: for every route with at least 2 vertices the first movement point is
\* the first vertex, the last is the last vertex, and point i is the linear
\* interpolation between the vertices floor(p) and floor(p) + 1 at the
\* fraction p - floor(p), where p = i / (T - 1) * (L - 1); the two-vertex
\* route [[0,0],[0,1]] with 120 seconds gives 120 points with point 0 =
\* [0,0], point 119 = [0,1] and point 60 = [0, 60/119].
C22_PlanInterpolates ==
  (Planned /\ Len(call.route.coordinates) >= 2 /\ result.status = "returns")
    => LET c == call.route.coordinates
           L == Len(c)
           T == Len(result.value)
       IN  /\ result.value[1] = <<c[1][1], c[1][2], 1>>
           /\ result.value[T] = <<c[L][1], c[L][2], 1>>
           /\ \A i \in 0..(T - 1) :
                LET f == (i * (L - 1)) \div (T - 1)
                    r == i * (L - 1) - f * (T - 1)
                IN  IF f + 1 <= L - 1
                    THEN Interpolates(result.value[i + 1], c[f + 1], c[f + 2], r, T - 1)
                    ELSE result.value[i + 1] = <<c[f + 1][1], c[f + 1][2], 1>>
           /\ call.route = ScenarioRoute
                => /\ T = 120
                   /\ result.value[1] = <<0, 0, 1>>
                   /\ result.value[120] = <<0, 1, 1>>
                   /\ result.value[61] = <<0, 60, 119>>

\* The 120 second scenario has been planned.
C22_Witness ==
  /\ Planned
  /\ call.route = ScenarioRoute
  /\ result.status = "returns"
  /\ result.value[61] = <<0, 60, 119>>

\* C23: the planner fails whenever the route has fewer than 2 coordinates,
\* for every duration: it never returns a point sequence for such a route.
C23_PlanRejectsShortRoutes ==
  (Planned /\ Len(call.route.coordinates) < 2) => result.status = "throws"

\* ======================================================= station locator
\* Route points and stations lie on one great circle (a meridian), so a
\* coordinate is its arc length in metres from a reference point, and the
\* haversine distance of calculateDistance is the difference of two arc
\* lengths.  Distances rounded to one decimal of a kilometre are integers
\* counting tenths of a kilometre.

\* Length in metres of one degree of arc on the sphere of calculateDistance
\* (R = 6371 km).
DegreeMetres == 111195
\* Kilometres per degree assumed when the route's box is widened.
BufferKmPerDegree == 111
\* The box query is limited to this many documents per wanted station.
BoxLimitFactor == 5
\* The $limit of each $geoNear query.
GeoNearLimit == 10
\* A route is sampled at about this many points.
SampleCount == 10

MaxStored == 3
MaxRouteLen == 2
MaxWanted == 2
MaxMatches == 12
MaxSelect == 5

\* The ChargingStation documents a collection may hold.
StationPool ==
  { [stationId |-> "S1", coordinates |-> 5040, isOperational |-> TRUE],
    [stationId |-> "S2", coordinates |-> 4500, isOperational |-> TRUE],
    [stationId |-> "S3", coordinates |-> 24000, isOperational |-> TRUE],
    [stationId |-> "S4", coordinates |-> -5004, isOperational |-> TRUE],
    [stationId |-> "S5", coordinates |-> 3000, isOperational |-> FALSE],
    [stationId |-> "S6", coordinates |-> 14000, isOperational |-> TRUE] }

\* A collection in its natural order; stationId is unique.
Collections ==
  UNION { { s \in [1..n -> StationPool] :
              \A i, j \in 1..n : i # j => s[i].stationId # s[j].stationId }
          : n \in 0..MaxStored }

LocatorVertices == {0, 8000, 20000}
LongRoute == [i \in 1..20 |-> (i - 1) * 1000]
LocatorRoutes == {LongRoute} \cup UNION { [1..l -> LocatorVertices] : l \in 0..MaxRouteLen }

\* The routeCoordinates argument: an array, or nothing at all.
RouteArguments ==
  { [given |-> TRUE, coordinates |-> r] : r \in LocatorRoutes }
    \cup { [given |-> FALSE, coordinates |-> << >>] }

\* Which store queries of a call reject: the box query, and the $geoNear
\* queries of the sample points at these route indices.
StoreFaults == [find : BOOLEAN, aggregate : {{}, {0}, 0..19}]

calculateDistance(coord1, coord2) == Abs(coord2 - coord1)

\* Math.round(km * 10) / 10 of a distance given in metres, in tenths of a km.
RoundTenths(metres) == (metres + 50) \div 100

RECURSIVE BoundsFrom(_, _, _)
BoundsFrom(routeCoordinates, i, bounds) ==
  IF i > Len(routeCoordinates) THEN bounds
  ELSE BoundsFrom(routeCoordinates, i + 1,
                  [minLat |-> Min(bounds.minLat, routeCoordinates[i]),
                   maxLat |-> Max(bounds.maxLat, routeCoordinates[i])])

\* The first point replaces the infinite bounds the scan starts from.
calculateRouteBounds(routeCoordinates) ==
  BoundsFrom(routeCoordinates, 2,
             [minLat |-> routeCoordinates[1], maxLat |-> routeCoordinates[1]])

RECURSIVE NearestIndexLast(_, _, _, _)
NearestIndexLast(stationCoords, routeCoordinates, i, nearest) ==
  IF i > Len(routeCoordinates) THEN nearest
  ELSE NearestIndexLast(stationCoords, routeCoordinates, i + 1,
         IF calculateDistance(stationCoords, routeCoordinates[i])
              <= calculateDistance(stationCoords, routeCoordinates[nearest])
         THEN i ELSE nearest)

RECURSIVE NearestIndex(_, _, _, _)
NearestIndex(stationCoords, routeCoordinates, i, nearest) ==
  IF i > Len(routeCoordinates) THEN nearest
  ELSE NearestIndex(stationCoords, routeCoordinates, i + 1,
         IF calculateDistance(stationCoords, routeCoordinates[i])
              < calculateDistance(stationCoords, routeCoordinates[nearest])
         THEN i ELSE nearest)

\* index counts from 0, as in the code.
findNearestPointOnRoute(stationCoords, routeCoordinates) ==
  LET nearest == NearestIndex(stationCoords, routeCoordinates, 2, 1)
  IN  [index |-> nearest - 1,
       coordinates |-> routeCoordinates[nearest],
       distanceKm |-> RoundTenths(calculateDistance(stationCoords, routeCoordinates[nearest]))]

selectSpreadOverRange(stations, maxStations) ==
  IF Len(stations) <= maxStations THEN stations
  ELSE LET totalStations == Len(stations)
       IN  [i \in 1..maxStations |->
              stations[((i - 1) * (totalStations - 1)) \div Max(1, maxStations - 1) + 1]]

selectEvenlySpacedStations(stations, maxStations) ==
  IF Len(stations) <= maxStations THEN stations
  ELSE LET totalStations == Len(stations)
           spacing == totalStations \div maxStations
       IN  [i \in 1..maxStations |-> stations[Min((i - 1) * spacing, totalStations - 1) + 1]]

\* Array.prototype.sort with a comparator on one numeric key, keys[i] being
\* the key of seq[i]: stable.
SortedBy(seq, keys) ==
  LET n == Len(seq)
      Before(i, j) == \/ keys[i] < keys[j]
                      \/ keys[i] = keys[j] /\ i < j
      Rank(i) == Cardinality({j \in 1..n : Before(j, i)})
  IN  [r \in 1..n |-> seq[CHOOSE i \in 1..n : Rank(i) = r - 1]]

RoutePositionIndex(stations) == [i \in 1..Len(stations) |-> stations[i].routePosition.index]

sortByRoutePositionSkipped(stations) == stations

sortByRoutePosition(stations) == SortedBy(stations, RoutePositionIndex(stations))

Limit(docs, n) == SubSeq(docs, 1, Min(n, Len(docs)))

\* ChargingStation.find({isOperational: true, coordinates in the widened
\* box}).limit(maxStations * 5), in natural order.
FindInBox(stations, bounds, maxDistance, maxStations) ==
  LET InBox(s) ==
        /\ s.isOperational
        /\ (bounds.minLat - s.coordinates) * BufferKmPerDegree <= maxDistance * DegreeMetres
        /\ (s.coordinates - bounds.maxLat) * BufferKmPerDegree <= maxDistance * DegreeMetres
  IN  Limit(SelectSeq(stations, InBox), maxStations * BoxLimitFactor)

\* The primary strategy; its catch turns a rejected query into [].
findStationsWithinRouteBuffer(routeCoordinates, maxDistance, maxStations, stations, rejects) ==
  IF rejects THEN << >>
  ELSE LET nearbyStations ==
             FindInBox(stations, calculateRouteBounds(routeCoordinates), maxDistance, maxStations)
           WithDistance(s) ==
             LET routePosition == findNearestPointOnRoute(s.coordinates, routeCoordinates)
             IN  [stationId |-> s.stationId, coordinates |-> s.coordinates,
                  isOperational |-> s.isOperational,
                  routePosition |-> routePosition,
                  distanceFromRouteKm |-> routePosition.distanceKm]
           Included(m) == m.routePosition.distanceKm <= maxDistance * 10
           stationsWithDistance ==
             SelectSeq([i \in 1..Len(nearbyStations) |-> WithDistance(nearbyStations[i])], Included)
       IN  selectEvenlySpacedStations(sortByRoutePosition(stationsWithDistance), maxStations)

\* The route indices of the sample points: every sampleInterval-th point.
SampleIndices(routeCoordinates) ==
  LET sampleInterval == Max(1, Len(routeCoordinates) \div SampleCount)
  IN  [k \in 1..((Len(routeCoordinates) - 1) \div sampleInterval + 1) |-> (k - 1) * sampleInterval]

DistanceFromPoint(stations) == [i \in 1..Len(stations) |-> stations[i].distanceFromPoint]

\* The $geoNear aggregation around one point: operational stations within
\* maxDistance * 1000 metres, nearest first, at most ten.
GeoNear(stations, point, maxDistance) ==
  LET Near(s) == s.isOperational /\ calculateDistance(s.coordinates, point) <= maxDistance * 1000
      found == SelectSeq(stations, Near)
      measured == [i \in 1..Len(found) |->
                     [stationId |-> found[i].stationId, coordinates |-> found[i].coordinates,
                      isOperational |-> found[i].isOperational,
                      distanceFromPoint |-> calculateDistance(found[i].coordinates, point)]]
  IN  Limit(SortedBy(measured, DistanceFromPoint(measured)), GeoNearLimit)

StationIds(matches) == {matches[i].stationId : i \in 1..Len(matches)}

AddAll(allStations, found) == allStations \o found

\* allStations.set for each found station whose stationId allStations lacks.
AddNew(allStations, found) ==
  LET Lacking(s) == s.stationId \notin StationIds(allStations)
  IN  allStations \o SelectSeq(found, Lacking)

RECURSIVE NearSamples(_, _, _, _, _, _, _)
NearSamples(routeCoordinates, maxDistance, stations, rejecting, samples, k, allStations) ==
  IF k > Len(samples) THEN allStations
  ELSE IF samples[k] \in rejecting
  THEN NearSamples(routeCoordinates, maxDistance, stations, rejecting, samples, k + 1, allStations)
  ELSE LET nearbyStations == GeoNear(stations, routeCoordinates[samples[k] + 1], maxDistance)
           found == [i \in 1..Len(nearbyStations) |->
                       [stationId |-> nearbyStations[i].stationId,
                        coordinates |-> nearbyStations[i].coordinates,
                        isOperational |-> nearbyStations[i].isOperational,
                        distanceFromPoint |-> nearbyStations[i].distanceFromPoint,
                        routePosition |->
                          findNearestPointOnRoute(nearbyStations[i].coordinates, routeCoordinates),
                        distanceFromRouteKm |-> RoundTenths(nearbyStations[i].distanceFromPoint)]]
       IN  NearSamples(routeCoordinates, maxDistance, stations, rejecting, samples, k + 1,
                       AddNew(allStations, found))

\* The fallback strategy; a rejected $geoNear query skips its sample point.
findStationsNearRoutePoints(routeCoordinates, maxDistance, maxStations, stations, rejecting) ==
  LET stationsArray ==
        NearSamples(routeCoordinates, maxDistance, stations, rejecting,
                    SampleIndices(routeCoordinates), 1, << >>)
  IN  selectEvenlySpacedStations(sortByRoutePosition(stationsArray), maxStations)

\* What a locator call has done so far: the strategies it has invoked, in
\* order, and the store queries it has issued.
NoTrace == [strategies |-> << >>, queries |-> << >>]
Awaiting(strategy, trace) == [status |-> "awaiting", strategy |-> strategy, trace |-> trace]
Located(value, trace) == [status |-> "returns", value |-> value, trace |-> trace]
Invoked(trace, strategy, queries) ==
  [strategies |-> Append(trace.strategies, strategy), queries |-> trace.queries \o queries]

NoRouteBelowOne(route) == ~route.given \/ Len(route.coordinates) < 1

\* !routeCoordinates || routeCoordinates.length < 2
NoRoute(route) == ~route.given \/ Len(route.coordinates) < 2

IsLocatorCall == call.fn = "findChargingStationsAlongRoute"

\* findChargingStationsAlongRoute is entered: it returns [] at once or calls
\* the primary strategy.
FindChargingStationsAlongRoute ==
  /\ IsLocatorCall
  /\ result = NoResult
  /\ result' = IF NoRoute(call.route)
                THEN Located(<< >>, NoTrace)
                ELSE Awaiting("primary", NoTrace)
  /\ UNCHANGED <<engine, call>>

PrimaryValue ==
  findStationsWithinRouteBuffer(call.route.coordinates, call.maxDistance, call.maxStations,
                                call.stations, call.faults.find)

FallbackValue ==
  findStationsNearRoutePoints(call.route.coordinates, call.maxDistance, call.maxStations,
                              call.stations, call.faults.aggregate)

WithinRouteBufferAlwaysReturned ==
  /\ IsLocatorCall
  /\ result.status = "awaiting"
  /\ result.strategy = "primary"
  /\ result' = Located(PrimaryValue, Invoked(result.trace, "primary", <<"find">>))
  /\ UNCHANGED <<engine, call>>

WithinRouteBufferRaises ==
  /\ IsLocatorCall
  /\ result.status = "awaiting"
  /\ result.strategy = "primary"
  /\ LET trace == Invoked(result.trace, "primary", <<"find">>)
     IN  result' = IF call.faults.find THEN Throws("MongoError")
                   ELSE IF Len(PrimaryValue) > 0 THEN Located(PrimaryValue, trace)
                   ELSE Awaiting("fallback", trace)
  /\ UNCHANGED <<engine, call>>

\* The primary strategy settles: its matches are returned if there are any,
\* otherwise the fallback strategy is called.
WithinRouteBuffer ==
  /\ IsLocatorCall
  /\ result.status = "awaiting"
  /\ result.strategy = "primary"
  /\ LET trace == Invoked(result.trace, "primary", <<"find">>)
     IN  result' = IF Len(PrimaryValue) > 0
                   THEN Located(PrimaryValue, trace)
                   ELSE Awaiting("fallback", trace)
  /\ UNCHANGED <<engine, call>>

\* The fallback strategy settles, after one $geoNear query per sample point.
NearRoutePoints ==
  /\ IsLocatorCall
  /\ result.status = "awaiting"
  /\ result.strategy = "fallback"
  /\ LET samples == SampleIndices(call.route.coordinates)
     IN  result' = Located(FallbackValue,
                           Invoked(result.trace, "fallback", [k \in 1..Len(samples) |-> "aggregate"]))
  /\ UNCHANGED <<engine, call>>

InitLocator ==
  /\ Idle
  /\ fleet = FleetDocs
  /\ budget = [requests |-> 0, ticks |-> 0]
  /\ call \in [fn : {"findChargingStationsAlongRoute"}, route : RouteArguments,
               maxDistance : {5}, maxStations : 1..MaxWanted,
               stations : Collections, faults : StoreFaults]
  /\ result = NoResult

NextLocator ==
  \/ FindChargingStationsAlongRoute
  \/ WithinRouteBuffer
  \/ NearRoutePoints

SpecLocator == InitLocator /\ [][NextLocator]_vars

\* ---------------------------------------------- the selection by itself
SelectEvenlySpacedStations ==
  /\ call.fn = "selectEvenlySpacedStations"
  /\ result = NoResult
  /\ result' = Returns(selectEvenlySpacedStations(call.stations, call.maxStations))
  /\ UNCHANGED <<engine, call>>

\* Matches sorted by route position, each standing for its position.
SortedMatches == {[i \in 1..n |-> i - 1] : n \in 0..MaxMatches}

InitSelect ==
  /\ Idle
  /\ fleet = FleetDocs
  /\ budget = [requests |-> 0, ticks |-> 0]
  /\ call \in [fn : {"selectEvenlySpacedStations"}, stations : SortedMatches,
               maxStations : 0..MaxSelect]
  /\ result = NoResult

NextSelect == SelectEvenlySpacedStations

SpecSelect == InitSelect /\ [][NextSelect]_vars

\* ------------------------------------------------------------ locator claims
\* A findChargingStationsAlongRoute call has returned.
LocatorReturned == IsLocatorCall /\ result.status = "returns"

\* The stationIds of the matches, in order.
IdsOf(matches) == [i \in 1..Len(matches) |-> matches[i].stationId]

\* C24: findChargingStationsAlongRoute returns at most maxStations matches,
\* and they are in non-decreasing order of their nearest route index,
\* whether the primary or the fallback strategy produced them.
C24_AtMostMaxStationsInRouteOrder ==
  LocatorReturned =>
    /\ Len(result.value) <= call.maxStations
    /\ \A i, j \in 1..Len(result.value) :
         i < j => result.value[i].routePosition.index <= result.value[j].routePosition.index

\* Three stations are in range in a natural order that is not the route's;
\* two are wanted and the primary strategy returns the first two by route
\* position.
C24_Witness ==
  /\ LocatorReturned
  /\ call.route.coordinates = <<0, 20000>>
  /\ IdsOf(call.stations) = <<"S3", "S2", "S1">>
  /\ call.maxStations = 2
  /\ result.trace.strategies = <<"primary">>
  /\ IdsOf(result.value) = <<"S2", "S1">>

\* C25: when routeCoordinates is missing or has fewer than 2 points,
\* findChargingStationsAlongRoute returns the empty sequence and issues no
\* store query.
C25_ShortRouteReturnsEmptyUnqueried ==
  (/\ IsLocatorCall
   /\ result # NoResult
   /\ (~call.route.given \/ Len(call.route.coordinates) < 2))
    => /\ result.status = "returns"
       /\ result.value = << >>
       /\ result.trace.queries = << >>
       /\ result.trace.strategies = << >>

\* A one-point route next to an operational station: nothing is looked up.
C25_Witness ==
  /\ LocatorReturned
  /\ call.route.given
  /\ call.route.coordinates = <<0>>
  /\ IdsOf(call.stations) = <<"S2">>
  /\ result.value = << >>
  /\ result.trace.queries = << >>

\* C26: every match the primary strategy returns lies, by its true unrounded
\* distance, at most maxDistance kilometres from its nearest route vertex.
C26_PrimaryWithinTrueDistance ==
  (LocatorReturned /\ result.trace.strategies = <<"primary">>)
    => \A i \in 1..Len(result.value) :
         calculateDistance(result.value[i].coordinates,
                           result.value[i].routePosition.coordinates)
           <= call.maxDistance * 1000

\* The call was given a route of at least two points.
RouteGiven == call.route.given /\ Len(call.route.coordinates) >= 2

\* C27: with a box query that succeeds, the fallback strategy runs exactly
\* when the primary strategy yields no match.  If the primary yields a match
\* its result is what the call returns and the fallback is not run; if it
\* yields none the call returns the fallback's result.
C27_FallbackIffPrimaryEmpty ==
  (/\ IsLocatorCall
   /\ RouteGiven
   /\ ~call.faults.find
   /\ result # NoResult
   /\ result # Awaiting("primary", NoTrace))
    => IF Len(PrimaryValue) > 0
       THEN result = Located(PrimaryValue,
                             [strategies |-> <<"primary">>, queries |-> <<"find">>])
       ELSE \/ result = Awaiting("fallback",
                                 [strategies |-> <<"primary">>, queries |-> <<"find">>])
            \/ /\ result.status = "returns"
               /\ result.value = FallbackValue
               /\ result.trace.strategies = <<"primary", "fallback">>

\* The only station in the box is 6 km from either route point: the primary
\* yields nothing, the fallback has run and the call returns its result.
C27_Witness ==
  /\ LocatorReturned
  /\ call.route.coordinates = <<0, 20000>>
  /\ IdsOf(call.stations) = <<"S6">>
  /\ ~call.faults.find
  /\ result.trace.strategies = <<"primary", "fallback">>
  /\ result.trace.queries = <<"find", "aggregate", "aggregate">>
  /\ result.value = << >>

\* C28: a failure of the primary strategy (its box query rejecting) does
\* not leave findChargingStationsAlongRoute: the fallback strategy is run and
\* its result returned, and the call never ends by throwing.
C28_PrimaryFailureFallsThrough ==
  (IsLocatorCall /\ result # NoResult)
    => /\ result.status # "throws"
       /\ (RouteGiven /\ call.faults.find /\ result.status = "returns")
            => /\ result.trace.strategies = <<"primary", "fallback">>
               /\ result.value = FallbackValue

\* The box query rejects and the fallback finds the station near the route.
C28_Witness ==
  /\ LocatorReturned
  /\ call.faults = [find |-> TRUE, aggregate |-> {}]
  /\ call.route.coordinates = <<0, 20000>>
  /\ IdsOf(call.stations) = <<"S3">>
  /\ result.trace.strategies = <<"primary", "fallback">>
  /\ IdsOf(result.value) = <<"S3">>

\* C29: the result of findChargingStationsAlongRoute holds no two matches
\* with the same stationId.
C29_NoDuplicateStations ==
  LocatorReturned =>
    \A i, j \in 1..Len(result.value) :
      i # j => result.value[i].stationId # result.value[j].stationId

\* Station S2 is within range of both sample points of the route and the
\* fallback returns it once.
C29_Witness ==
  /\ LocatorReturned
  /\ call.route.coordinates = <<0, 8000>>
  /\ IdsOf(call.stations) = <<"S2", "S1">>
  /\ call.maxStations = 2
  /\ result.trace.strategies = <<"primary", "fallback">>
  /\ Len(GeoNear(call.stations, 0, call.maxDistance)) = 1
  /\ Len(GeoNear(call.stations, 8000, call.maxDistance)) = 2
  /\ IdsOf(result.value) = <<"S2", "S1">>

\* selectEvenlySpacedStations has been applied.
Selected == call.fn = "selectEvenlySpacedStations" /\ result # NoResult

\* C30: selectEvenlySpacedStations(stations, k) returns min(k, N) of the N
\* matches in their original relative order, and for N > k >= 2 the selection
\* spans the input: the first selected match lies within one spacing step
\* floor(N / k) of the start and the last selected match within one spacing
\* step of the end.
C30_SelectionSpansRange ==
  Selected =>
    LET N == Len(call.stations)
        K == call.maxStations
        selected == result.value
    IN  /\ Len(selected) = Min(K, N)
        /\ \A i, j \in 1..Len(selected) : i < j => selected[i] < selected[j]
        /\ (N > K /\ K >= 2)
             => /\ selected[1] <= N \div K
                /\ (N - 1) - selected[K] <= N \div K

\* --------------------------------------- the nearest-point scan by itself
FindNearestPointOnRoute ==
  /\ call.fn = "findNearestPointOnRoute"
  /\ result = NoResult
  /\ result' = Returns(findNearestPointOnRoute(call.stationCoords, call.routeCoordinates))
  /\ UNCHANGED <<engine, call>>

\* Station (0,0) on the route [[0,0],[10,0]]: ten degrees of arc.
TenDegreeRoute == <<0, 10 * DegreeMetres>>

\* The non-empty routes a station is projected on.
ProjectionRoutes == {TenDegreeRoute} \cup (LocatorRoutes \ {<< >>})

InitNearest ==
  /\ Idle
  /\ fleet = FleetDocs
  /\ budget = [requests |-> 0, ticks |-> 0]
  /\ call \in [fn : {"findNearestPointOnRoute"},
               stationCoords : {0, 4000} \cup {s.coordinates : s \in StationPool},
               routeCoordinates : ProjectionRoutes]
  /\ result = NoResult

NextNearest == FindNearestPointOnRoute

SpecNearest == InitNearest /\ [][NextNearest]_vars

\* C31: for N sorted matches and a target K with N > K >= 1 the selection
\* is exactly the matches at positions i * floor(N / K), i = 0..K-1, clamped
\* to N - 1; for N <= K it is the input unchanged; 12 matches and K = 4 give
\* the positions 0, 3, 6, 9.
C31_SelectionPositions ==
  Selected =>
    LET N == Len(call.stations)
        K == call.maxStations
    IN  /\ N <= K => result.value = call.stations
        /\ (N > K /\ K >= 1)
             => /\ Len(result.value) = K
                /\ \A i \in 0..(K - 1) :
                     result.value[i + 1] = Min(i * (N \div K), N - 1)
        /\ (N = 12 /\ K = 4) => result.value = <<0, 3, 6, 9>>

C31_Witness ==
  /\ Selected
  /\ Len(call.stations) = 12
  /\ call.maxStations = 4
  /\ result.value = <<0, 3, 6, 9>>

\* C32: findNearestPointOnRoute returns, for a station and a non-empty
\* route, the lowest index of a route vertex at minimal distance from the
\* station, that vertex's coordinate, and the minimal distance rounded to one
\* decimal of a kilometre; station (0,0) on [[0,0],[10,0]] gives index 0 and
\* distance 0.0.
C32_NearestVertex ==
  (call.fn = "findNearestPointOnRoute" /\ result # NoResult)
    => LET route == call.routeCoordinates
           d(i) == calculateDistance(call.stationCoords, route[i])
           n == result.value.index + 1
       IN  /\ n \in 1..Len(route)
           /\ \A j \in 1..Len(route) : d(n) <= d(j)
           /\ \A j \in 1..(n - 1) : d(j) > d(n)
           /\ result.value.coordinates = route[n]
           /\ result.value.distanceKm * 100 - 50 <= d(n)
           /\ d(n) < result.value.distanceKm * 100 + 50
           /\ (call.stationCoords = 0 /\ route = TenDegreeRoute)
                => result.value.index = 0 /\ result.value.distanceKm = 0

\* A station as far from the first vertex as from the second: the first wins.
C32_Witness ==
  /\ call.fn = "findNearestPointOnRoute"
  /\ call.stationCoords = 4000
  /\ call.routeCoordinates = <<0, 8000>>
  /\ result = Returns([index |-> 0, coordinates |-> 0, distanceKm |-> 40])

\* C33: in every match findChargingStationsAlongRoute returns,
\* distanceFromRouteKm is the distance, to one decimal, from the station to
\* the route vertex its routePosition names.
C33_DistanceIsToNearestVertex ==
  LocatorReturned =>
    \A i \in 1..Len(result.value) :
      result.value[i].distanceFromRouteKm
        = RoundTenths(calculateDistance(result.value[i].coordinates,
                                        result.value[i].routePosition.coordinates))

\* ------------------------------------------------- engine claims, continued
\* The navigation objects that are in the table.
InTable == {activeNavigations[u] : u \in {v \in Users : Has(v)}}

\* C34: every session in the table has a scheduled tick timer exactly when
\* its status is active: an active session holds the handle of one live
\* timer, which is its only live timer; a paused session holds no handle and
\* has no live timer; and there is no third status.
C34_TimerIffActive ==
  \A n \in InTable :
    /\ navs[n].status \in {"active", "paused"}
    /\ navs[n].status = "active"
         => /\ navs[n].interval \in DOMAIN timers
            /\ LiveTimersOfNav(timers, n) = {navs[n].interval}
    /\ navs[n].status = "paused"
         => /\ navs[n].interval = Null
            /\ LiveTimersOfNav(timers, n) = {}

\* A session that was paused and resumed: its first timer is cleared and it
\* holds the handle of its second.
C34_Witness ==
  /\ Has("A")
  /\ navs[activeNavigations["A"]].status = "active"
  /\ navs[activeNavigations["A"]].interval = 2
  /\ ~timers[1].live
  /\ timers[2].live

\* C35: every location-update event is consistent with the currentIndex it
\* carries: its position is movementPoints[currentIndex], its progress is
\* currentIndex / totalPoints * 100 and its estimatedTimeRemaining is
\* totalPoints - currentIndex, also when ticks overlap.
C35_LocationUpdateConsistent ==
  \A n \in DOMAIN navs :
    \A i \in 1..Len(published[n]) :
      LET e == published[n][i]
          points == navs[n].movementPoints
      IN  IsLocationUpdate(e)
            => /\ e.currentIndex < Len(points)
               /\ e.position = points[e.currentIndex + 1]
               /\ e.totalPoints = Len(points)
               /\ e.progress = <<e.currentIndex * 100, Len(points)>>
               /\ e.estimatedTimeRemaining = Len(points) - e.currentIndex

\* ------------------------------- one vehicle that is paused and resumed
MaxResumedRequests == 3
MaxResumedTicks == 3

\* One vehicle, with or without a Fleet document, on its own route, with
\* requests enough to start, pause and resume.
InitResumed ==
  /\ InitState
  /\ \E e \in BOOLEAN : fleet = [FleetDocs EXCEPT !["A"].exists = e]
  /\ budget = [requests |-> MaxResumedRequests, ticks |-> MaxResumedTicks]

NextResumed == NextOf({"A"}, {"R1"})

SpecResumed == InitResumed /\ [][NextResumed]_vars

\* A timer created by /resumeNavigation fires for navigation n and the tick
\* publishes its location-update.
ResumedTick(n) ==
  /\ \E t \in DOMAIN timers :
       /\ timers[t].live
       /\ timers[t].nav = n
       /\ timers[t].closure = "resumeNavigation"
  /\ budget'.ticks < budget.ticks
  /\ Len(LocationUpdates(published', n)) = Len(LocationUpdates(published, n)) + 1

\* C36: a tick of a resumed session writes the new position to the vehicle's
\* Fleet document, when the vehicle has one, as a tick of a freshly started
\* session does: after the tick the stored position is the session's current
\* position.
C36_ResumedTickWritesStore ==
  [][\A n \in DOMAIN navs :
       (ResumedTick(n) /\ fleet[navs[n].userId].exists)
         => fleet'[navs[n].userId].coordinates = navs'[n].currentPosition]_vars

\* C37: stop and completion succeed fully or change nothing: when the route
\* update of a stop or of a completion has rejected, it is not so that the
\* session is out of the table while its route is still alive and neither
\* navigation-stopped nor navigation-completed was published for it.
C37_StopAndCompletionAtomic ==
  [][\A p \in BagToSet(pending) :
       (/\ p.pc \in {"findByIdAndUpdate", "complete"}
        /\ p.op \in {"stopNavigation", "tick"}
        /\ pending' = Resume(p)
        /\ routes' = routes
        /\ published' = published)
         => ~(/\ p.nav \notin {activeNavigations'[u] : u \in Users}
              /\ routes'[p.routeId].isActive
              /\ CountEvent(published', p.nav, "navigation-stopped") = 0
              /\ CountEvent(published', p.nav, "navigation-completed") = 0)]_vars

\* C38: for every session in the table 0 <= currentIndex <= the number of
\* its movement points, for any store latency and any interleaving of ticks
\* with pause and resume.
C38_IndexWithinPoints ==
  \A n \in InTable :
    /\ 0 <= navs[n].currentIndex
    /\ navs[n].currentIndex <= Len(navs[n].movementPoints)

\* C39: whenever no handler is suspended at an await, a route is marked
\* active in the store if and only if a session in the table references it.
C39_RouteActiveIffSession ==
  pending = EmptyBag
    => \A r \in DOMAIN routes :
         routes[r].isActive <=> \E n \in InTable : navs[n].routeId = r

\* C40: navigation-completed or navigation-stopped is the last event a
\* session publishes to its vehicle's room: no location-update of the
\* session follows it.
C40_EndEventIsLast ==
  \A n \in DOMAIN navs :
    \A i, j \in 1..Len(published[n]) :
      (/\ i < j
       /\ published[n][i].event \in {"navigation-completed", "navigation-stopped"})
        => published[n][j].event # "location-update"

====
